---- MODULE Spec2Model ----
(***************************************************************************)
(* A model of units::quantity_kind (src/include/units/quantity_kind.h).    *)
(*                                                                         *)
(* A quantity_kind<K, U, Rep> holds one quantity q_ and carries the kind K *)
(* and the unit U in its type.  A kind-quantity value is the record        *)
(*     [tag |-> "quantity_kind", kind |-> K, q |-> [dim, exp, val]]        *)
(* where dim is the exponent of the one base dimension (length), exp is    *)
(* the decimal exponent of the unit's ratio to the coherent unit of dim    *)
(* and val is the number stored (Rep is int).  The static type of a value  *)
(* is (kind, dim, exp); val is the only run-time state.                    *)
(*                                                                         *)
(* An expression the header's constraints reject has the value IllFormed.  *)
(* Division and remainder by zero are undefined for int; the actions do    *)
(* not divide by zero.                                                     *)
(***************************************************************************)
EXTENDS Integers, Sequences, FiniteSets, TLC

\* ------------------------------------------------------------------ bounds
MaxVal    == 2   \* |val| of the objects
MaxScalar == 2   \* the largest bare number and plain quantity

\* --------------------------------------------- kind hierarchy (units/kind.h)
NoKind == "none"

Kinds == {"Width", "Radius", "Area", "Curvature", "Height", "Count"}

dim_one == 0

\* K::base_kind
base_kind(K) ==
    CASE K = "Width"  -> "Width"
      [] K = "Radius" -> "Width"
      [] K = "Area"   -> "Width"
      [] K = "Curvature" -> "Width"
      [] K = "Height" -> "Height"
      [] K = "Count"  -> "Count"

\* K::dimension
dimension(K) ==
    CASE K = "Width"  -> 1
      [] K = "Radius" -> 1
      [] K = "Area"   -> 2
      [] K = "Curvature" -> 0 - 1
      [] K = "Height" -> 1
      [] K = "Count"  -> dim_one

\* downcast_kind(base_kind, target_dimension): the most specific kind declared
\* for the base kind B over the dimension D, NoKind when none is declared
downcast_kind(B, D) ==
    CASE B = "Width"  /\ D = 1       -> "Radius"
      [] B = "Width"  /\ D = 2       -> "Area"
      [] B = "Width"  /\ D = 0 - 1   -> "Curvature"
      [] B = "Height" /\ D = 1       -> "Height"
      [] B = "Count"  /\ D = dim_one -> "Count"
      [] OTHER                       -> NoKind

\* concept Kind
IsKind(K) == K \in Kinds

\* equivalent<K1, K2> for kinds: same base kind over the same dimension
equivalent(K1, K2) ==
    /\ base_kind(K1) = base_kind(K2)
    /\ dimension(K1) = dimension(K2)

\* ------------------------------------------- quantity layer (units/quantity.h)
Abs(n) == IF n < 0 THEN -n ELSE n

\* int division and remainder of C++: truncation toward zero
TruncDiv(a, b) ==
    LET m == Abs(a) \div Abs(b) IN IF (a < 0) # (b < 0) THEN -m ELSE m

TruncMod(a, b) == a - b * TruncDiv(a, b)

RECURSIVE Pow10(_)
Pow10(n) == IF n <= 0 THEN 1 ELSE 10 * Pow10(n - 1)

Q(d, e, v) == [dim |-> d, exp |-> e, val |-> v]

Min2(a, b) == IF a <= b THEN a ELSE b

\* the value of q expressed in the unit of exponent e (e <= q.exp)
InUnit(q, e) == q.val * Pow10(q.exp - e)

\* std::is_convertible_v<From, To> for quantities of int: same dimension and
\* a unit ratio that is a whole number
QConvertible(from, to) == from.dim = to.dim /\ from.exp >= to.exp

\* quantity<D, U, Rep>(q): the converting constructor
QConvert(q, e) == Q(q.dim, e, InUnit(q, e))

QNeg(a) == Q(a.dim, a.exp, -a.val)

QAdd(a, b) ==
    LET e == Min2(a.exp, b.exp) IN Q(a.dim, e, InUnit(a, e) + InUnit(b, e))

QSub(a, b) ==
    LET e == Min2(a.exp, b.exp) IN Q(a.dim, e, InUnit(a, e) - InUnit(b, e))

QMod(a, b) ==
    LET e == Min2(a.exp, b.exp) IN Q(a.dim, e, TruncMod(InUnit(a, e), InUnit(b, e)))

QMulValue(a, s) == Q(a.dim, a.exp, a.val * s)

QDivValue(a, s) == Q(a.dim, a.exp, TruncDiv(a.val, s))

QModValue(a, s) == Q(a.dim, a.exp, TruncMod(a.val, s))

ValueDivQ(s, a) == Q(-a.dim, -a.exp, TruncDiv(s, a.val))

\* q % d for a dimensionless quantity d: the remainder of the two numbers, in
\* the product of the two units
QModDimensionless(a, d) == Q(a.dim, a.exp + d.exp, TruncMod(a.val, d.val))

QMul(a, b) == Q(a.dim + b.dim, a.exp + b.exp, a.val * b.val)

QDiv(a, b) == Q(a.dim - b.dim, a.exp - b.exp, TruncDiv(a.val, b.val))

\* operator== and operator<=> of two quantities of one dimension
QEq(a, b) ==
    LET e == Min2(a.exp, b.exp) IN InUnit(a, e) = InUnit(b, e)

QCmp(a, b) ==
    LET e == Min2(a.exp, b.exp) IN
    IF InUnit(a, e) < InUnit(b, e) THEN "less"
    ELSE IF InUnit(a, e) > InUnit(b, e) THEN "greater" ELSE "equal"

\* quantity::zero(), quantity::one()
QZero(d, e) == Q(d, e, 0)

QOne(d, e) == Q(d, e, 1)

\* ------------------------------------------------- values of the expressions
IllFormed == [tag |-> "ill_formed"]

Value(v) == [tag |-> "value", v |-> v]

Quantity(q) == [tag |-> "quantity", q |-> q]

Bool(b) == [tag |-> "bool", b |-> b]

Ordering(o) == [tag |-> "ordering", o |-> o]

NoOperand == [tag |-> "none"]

IsQuantityKind(x) == x.tag = "quantity_kind"

IsQuantity(x) == x.tag = "quantity"

IsValue(x) == x.tag = "value"

\* quantity_kind<K, U, Rep> holding q: class template, lines 66-76
quantity_kind(K, q) == [tag |-> "quantity_kind", kind |-> K, q |-> q]

\* UnitOf<U, K::dimension>
UnitOf(q, K) == q.dim = dimension(K)

\* the static type quantity_kind<K, U, int> of a kind-quantity
Type(K, e) == [kind |-> K, exp |-> e]

type_of(qk) == Type(qk.kind, qk.q.exp)

\* quantity_kind::quantity_type, as a quantity of that type holding v
quantity_type(T, v) == Q(dimension(T.kind), T.exp, v)

\* ------------------------------------------------------------ detail helpers
make_quantity_kind_fn(K, q) ==
    IF IsKind(K) /\ UnitOf(q, K) THEN quantity_kind(K, q) ELSE IllFormed

make_quantity_kind(QK, q) == make_quantity_kind_fn(QK.kind, q)

\* mutant: an undeclared kind degrades to the plain quantity
downcasted_kind_fn_Mut(K, q) ==
    IF downcast_kind(K, q.dim) = NoKind THEN Quantity(q)
    ELSE make_quantity_kind_fn(downcast_kind(K, q.dim), q)

downcasted_kind_fn(K, q) == make_quantity_kind_fn(downcast_kind(K, q.dim), q)

\* mutant: the lookup starts from the kind itself, not from its base kind
downcasted_kind_Mut(QK, q) == downcasted_kind_fn(QK.kind, q)

downcasted_kind(QK, q) == downcasted_kind_fn(base_kind(QK.kind), q)

\* ------------------------------------------------ construction and extraction
common(qk) == qk.q

\* explicit quantity_kind(const Value& v), lines 83-85
ctor_from_value(T, x) ==
    IF IsValue(x) /\ dimension(T.kind) = dim_one
    THEN quantity_kind(T.kind, quantity_type(T, x.v))
    ELSE IllFormed

\* mutant: q_ is left value-initialized
ctor_from_quantity_Mut(T, x) ==
    IF IsQuantity(x) /\ QConvertible(x.q, quantity_type(T, 0))
    THEN quantity_kind(T.kind, quantity_type(T, 0))
    ELSE IllFormed

\* explicit quantity_kind(const Q& q), lines 87-89
ctor_from_quantity(T, x) ==
    IF IsQuantity(x) /\ QConvertible(x.q, quantity_type(T, 0))
    THEN quantity_kind(T.kind, QConvert(x.q, T.exp))
    ELSE IllFormed

\* mutant: the number is taken over without converting the unit
ctor_from_quantity_kind_Mut(T, x) ==
    IF /\ IsQuantityKind(x)
       /\ equivalent(x.kind, T.kind)
       /\ QConvertible(common(x), quantity_type(T, 0))
    THEN quantity_kind(T.kind, quantity_type(T, common(x).val))
    ELSE IllFormed

\* explicit(false) quantity_kind(const QK2& qk), lines 91-93
ctor_from_quantity_kind(T, x) ==
    IF /\ IsQuantityKind(x)
       /\ equivalent(x.kind, T.kind)
       /\ QConvertible(common(x), quantity_type(T, 0))
    THEN quantity_kind(T.kind, QConvert(common(x), T.exp))
    ELSE IllFormed

\* the argument bound to a parameter `const quantity_kind&` of type T: the
\* object itself, or a temporary made by the one non-explicit constructor
as_parameter(T, x) ==
    IF IsQuantityKind(x) /\ type_of(x) = T THEN x
    ELSE ctor_from_quantity_kind(T, x)

\* mutant: zero() wraps quantity_type::one()
zero_Mut(T) == ctor_from_quantity(T, Quantity(QOne(dimension(T.kind), T.exp)))

zero(T) == ctor_from_quantity(T, Quantity(QZero(dimension(T.kind), T.exp)))

one(T) == ctor_from_quantity(T, Quantity(QOne(dimension(T.kind), T.exp)))

\* ------------------------------------------------------- member operators
\* the effect of a member operator that assigns to q_: the new value of *this
\* and the value the operator returns (the new *this for a returned reference)
Mutation(self, ret) == [tag |-> "mutation", self |-> self, ret |-> ret]

WithVal(self, v) == [self EXCEPT !.q.val = v]

\* operator+() const, lines 124-128
op_unary_plus(self) == self

\* operator-() const, lines 130-134
op_unary_minus(self) == make_quantity_kind(self, QNeg(self.q))

\* operator++(), lines 136-141
op_pre_inc(self) ==
    LET new == WithVal(self, self.q.val + 1) IN Mutation(new, new)

\* operator++(int), lines 143-147
op_post_inc(self) ==
    Mutation(WithVal(self, self.q.val + 1),
             ctor_from_quantity(type_of(self), Quantity(self.q)))

\* operator--(), lines 149-154
op_pre_dec(self) ==
    LET new == WithVal(self, self.q.val - 1) IN Mutation(new, new)

\* operator--(int), lines 156-160
op_post_dec(self) ==
    Mutation(WithVal(self, self.q.val - 1),
             ctor_from_quantity(type_of(self), Quantity(self.q)))

\* mutant: *this is replaced by the sum lhs + rhs of the free operator
op_plus_assign_Mut(self, x) ==
    IF ~(IsQuantityKind(x) /\ equivalent(x.kind, self.kind)) THEN IllFormed
    ELSE LET sum == quantity_kind(self.kind, QAdd(common(self), common(x)))
         IN  Mutation(sum, sum)

\* operator+=(const quantity_kind& qk), lines 162-167
op_plus_assign(self, x) ==
    LET qk == as_parameter(type_of(self), x) IN
    IF qk = IllFormed THEN IllFormed
    ELSE LET new == WithVal(self, self.q.val + common(qk).val) IN Mutation(new, new)

\* operator-=(const quantity_kind& qk), lines 169-174
op_minus_assign(self, x) ==
    LET qk == as_parameter(type_of(self), x) IN
    IF qk = IllFormed THEN IllFormed
    ELSE LET new == WithVal(self, self.q.val - common(qk).val) IN Mutation(new, new)

\* operator*=(const Rep2& rhs), lines 176-182
op_mul_assign(self, x) ==
    IF IsValue(x)
    THEN LET new == WithVal(self, self.q.val * x.v) IN Mutation(new, new)
    ELSE IllFormed

\* operator/=(const Rep2& rhs), lines 184-190
op_div_assign(self, x) ==
    IF IsValue(x)
    THEN LET new == WithVal(self, TruncDiv(self.q.val, x.v)) IN Mutation(new, new)
    ELSE IllFormed

\* `q %= r` of the quantity layer: r is a number, or a quantity that converts
\* to the type of q
QAcceptsModAssign(q, x) ==
    \/ IsValue(x)
    \/ IsQuantity(x) /\ QConvertible(x.q, q)

\* mutant: the constraint !Quantity<Rep2> is missing
op_mod_assign_value_Mut(self, x) ==
    IF QAcceptsModAssign(self.q, x)
    THEN LET d   == IF IsValue(x) THEN x.v ELSE InUnit(x.q, self.q.exp)
             new == WithVal(self, TruncMod(self.q.val, d))
         IN  Mutation(new, new)
    ELSE IllFormed

\* template operator%=(const Rep2& rhs), lines 192-198
op_mod_assign_value(self, x) ==
    IF ~IsQuantity(x) /\ QAcceptsModAssign(self.q, x)
    THEN LET new == WithVal(self, TruncMod(self.q.val, x.v)) IN Mutation(new, new)
    ELSE IllFormed

\* operator%=(const quantity_kind& qk), lines 200-205
op_mod_assign_qk(self, x) ==
    LET qk == as_parameter(type_of(self), x) IN
    IF qk = IllFormed THEN IllFormed
    ELSE LET new == WithVal(self, TruncMod(self.q.val, common(qk).val))
         IN  Mutation(new, new)

\* `self %= x`: the overload set of lines 192-205
op_mod_assign(self, x) ==
    IF op_mod_assign_value(self, x) # IllFormed THEN op_mod_assign_value(self, x)
    ELSE op_mod_assign_qk(self, x)

\* ----------------------------------------------------------- hidden friends
\* operator*(const quantity_kind& qk, const Value& v), lines 209-214
op_mul_value(qk, v) == make_quantity_kind(qk, QMulValue(common(qk), v))

\* operator*(const Value& v, const quantity_kind& qk), lines 216-221
op_value_mul(v, qk) == make_quantity_kind(qk, QMulValue(common(qk), v))

\* mutant: the quotient by a number is downcast like the quotient of a number
op_div_value_Mut(qk, v) == downcasted_kind(qk, QDivValue(common(qk), v))

\* operator/(const quantity_kind& qk, const Value& v), lines 223-228
op_div_value(qk, v) == make_quantity_kind(qk, QDivValue(common(qk), v))

\* operator/(const Value& v, const quantity_kind& qk), lines 230-235
op_value_div(v, qk) == downcasted_kind(qk, ValueDivQ(v, common(qk)))

\* operator%(const quantity_kind& qk, const Value& v), lines 237-242
op_mod_value(qk, v) == make_quantity_kind(qk, QModValue(common(qk), v))

\* ----------------------------------------------------------- free operators
\* QuantityKindEquivalentTo<QK2, QK1>
QuantityKindEquivalentTo(b, a) ==
    IsQuantityKind(a) /\ IsQuantityKind(b) /\ equivalent(b.kind, a.kind)

\* mutant: the sum takes the kind of the right operand
op_plus_Mut(lhs, rhs) ==
    IF QuantityKindEquivalentTo(rhs, lhs)
    THEN make_quantity_kind(rhs, QAdd(common(lhs), common(rhs)))
    ELSE IllFormed

\* operator+(const QK1& lhs, const QK2& rhs), lines 256-261
op_plus(lhs, rhs) ==
    IF QuantityKindEquivalentTo(rhs, lhs)
    THEN make_quantity_kind(lhs, QAdd(common(lhs), common(rhs)))
    ELSE IllFormed

\* operator-(const QK1& lhs, const QK2& rhs), lines 263-268
op_minus(lhs, rhs) ==
    IF QuantityKindEquivalentTo(rhs, lhs)
    THEN make_quantity_kind(lhs, QSub(common(lhs), common(rhs)))
    ELSE IllFormed

\* operator*(const QK& lhs, const Q& rhs), lines 270-275
op_mul_quantity(lhs, rhs) == downcasted_kind(lhs, QMul(common(lhs), rhs))

\* operator*(const Q& lhs, const QK& rhs), lines 277-282
op_quantity_mul(lhs, rhs) == downcasted_kind(rhs, QMul(lhs, common(rhs)))

\* operator/(const QK& lhs, const Q& rhs), lines 284-289
op_div_quantity(lhs, rhs) == downcasted_kind(lhs, QDiv(common(lhs), rhs))

\* operator/(const Q& lhs, const QK& rhs), lines 291-296
op_quantity_div(lhs, rhs) == downcasted_kind(rhs, QDiv(lhs, common(rhs)))

\* operator%(const QK& lhs, const D& rhs), D dimensionless, lines 298-303
op_mod_dimensionless(lhs, rhs) ==
    IF rhs.dim = dim_one
    THEN make_quantity_kind(lhs, QModDimensionless(common(lhs), rhs))
    ELSE IllFormed

\* operator%(const QK1& lhs, const QK2& rhs), lines 305-310
op_mod(lhs, rhs) ==
    IF QuantityKindEquivalentTo(rhs, lhs)
    THEN make_quantity_kind(lhs, QMod(common(lhs), common(rhs)))
    ELSE IllFormed

\* `lhs <=> rhs`: the friend of lines 244-248 for one type (and for a right
\* operand that converts to it), the template of lines 312-317 otherwise
op_spaceship(lhs, rhs) ==
    IF ~(IsQuantityKind(lhs) /\ IsQuantityKind(rhs)) THEN IllFormed
    ELSE IF type_of(lhs) = type_of(rhs)
    THEN Ordering(QCmp(common(lhs), common(rhs)))
    ELSE IF QuantityKindEquivalentTo(rhs, lhs)
    THEN Ordering(QCmp(common(lhs), common(rhs)))
    ELSE IllFormed

\* mutant: the template is not constrained to equivalent kinds
op_equal_Mut(lhs, rhs) ==
    IF ~(IsQuantityKind(lhs) /\ IsQuantityKind(rhs)) THEN IllFormed
    ELSE Bool(QEq(common(lhs), common(rhs)))

\* `lhs == rhs`: the defaulted friend of line 250 compares q_ with q_; the
\* template of lines 319-324 compares common() with common()
op_equal(lhs, rhs) ==
    IF ~(IsQuantityKind(lhs) /\ IsQuantityKind(rhs)) THEN IllFormed
    ELSE IF type_of(lhs) = type_of(rhs)
    THEN Bool(QEq(lhs.q, rhs.q))
    ELSE IF QuantityKindEquivalentTo(rhs, lhs)
    THEN Bool(QEq(common(lhs), common(rhs)))
    ELSE IllFormed

\* ------------------------------------------------------------------- state
VARIABLES
    r,      \* the kind-quantity the member operators are called on
    rhs,    \* a second kind-quantity, the right-hand operand
    cpy,    \* a copy of r made by the copy constructor
    res,    \* the value of the last expression evaluated
    last    \* that expression: operator, operand and r before it

vars == <<r, rhs, cpy, res, last>>

Vals == (0 - MaxVal)..MaxVal

\* the bare numbers handed to the operators
Scalars == {s \in (0 - 1)..MaxScalar : s # 0}

\* the units of a dimension: the coherent unit and ten times it
Exps == {0, 1}

\* the objects a program can declare: the unit is a unit of the kind's dimension
Objects(KK, VV) ==
    {quantity_kind(K, Q(dimension(K), e, v)) : K \in KK, e \in Exps, v \in VV}

\* the objects the member operators are called on
Receivers == Objects({"Width", "Radius", "Height", "Count"}, Vals)

\* the right-hand objects: of the receiver's type, of an equivalent kind, of
\* another kind over the same dimension and of a kind over another dimension
Operands == Objects({"Radius", "Height", "Area"}, {1, MaxVal})

\* plain quantities handed to the operators: dimensionless ones and lengths
PlainQuantities == {Q(d, e, MaxScalar) : d \in {dim_one, 1}, e \in Exps}

Expr(op, x) == [op |-> op, x |-> x, pre |-> r]

Init ==
    /\ r \in Receivers
    /\ rhs \in Operands
    /\ cpy = r
    /\ res = NoOperand
    /\ last = [op |-> "idle", x |-> NoOperand, pre |-> r]

Idle == last.op = "idle"

\* an expression that leaves every object alone
Evaluate(op, x, value) ==
    /\ Idle
    /\ res' = value
    /\ last' = Expr(op, x)
    /\ UNCHANGED <<r, rhs, cpy>>

\* a member operator that assigns to q_ of r; a rejected call changes nothing
Assign(op, x, m) ==
    /\ Idle
    /\ last' = Expr(op, x)
    /\ IF m = IllFormed
       THEN res' = IllFormed /\ r' = r
       ELSE /\ m.self.q.val \in Vals
            /\ r' = m.self
            /\ res' = m.ret
    /\ UNCHANGED <<rhs, cpy>>

\* quantity_kind(const quantity_kind&) = default, line 80
Copy ==
    /\ Idle
    /\ cpy # r
    /\ cpy' = r
    /\ res' = r
    /\ last' = Expr("copy", NoOperand)
    /\ UNCHANGED <<r, rhs>>

\* the end of the full-expression: its value, a temporary, is destroyed
EndOfExpression ==
    /\ ~Idle
    /\ res' = NoOperand
    /\ last' = Expr("idle", NoOperand)
    /\ UNCHANGED <<r, rhs, cpy>>

CtorFromValue ==
    \E s \in Scalars :
        Evaluate("ctor_value", Value(s), ctor_from_value(type_of(r), Value(s)))

CtorFromQuantity ==
    \E p \in PlainQuantities :
        Evaluate("ctor_quantity", Quantity(p), ctor_from_quantity(type_of(r), Quantity(p)))

\* Kind(q.common())
CtorFromCommon ==
    Evaluate("ctor_common", Quantity(common(r)),
             ctor_from_quantity(type_of(r), Quantity(common(r))))

\* K2 x = rhs, with K2 the type of r
CtorFromQuantityKind ==
    Evaluate("ctor_quantity_kind", rhs, ctor_from_quantity_kind(type_of(r), rhs))

\* K1 y = r, with K1 the type of rhs
CtorFromQuantityKindBack ==
    Evaluate("ctor_quantity_kind_back", NoOperand,
             ctor_from_quantity_kind(type_of(rhs), r))

Zero == Evaluate("zero", NoOperand, zero(type_of(r)))

One == Evaluate("one", NoOperand, one(type_of(r)))

UnaryPlus == Evaluate("unary_plus", NoOperand, op_unary_plus(r))

UnaryMinus == Evaluate("unary_minus", NoOperand, op_unary_minus(r))

PreInc == Assign("pre_inc", NoOperand, op_pre_inc(r))

PostInc == Assign("post_inc", NoOperand, op_post_inc(r))

PreDec == Assign("pre_dec", NoOperand, op_pre_dec(r))

PostDec == Assign("post_dec", NoOperand, op_post_dec(r))

\* r += x, for another object and for r itself
PlusAssign == \E x \in {rhs, r} : Assign("plus_assign", x, op_plus_assign(r, x))

MinusAssign == \E x \in {rhs, r} : Assign("minus_assign", x, op_minus_assign(r, x))

MulAssign ==
    \E s \in Scalars : Assign("mul_assign", Value(s), op_mul_assign(r, Value(s)))

DivAssign ==
    \E s \in Scalars \ {0} : Assign("div_assign", Value(s), op_div_assign(r, Value(s)))

\* r %= x for a number, a plain quantity and a kind-quantity
ModAssign ==
    \E x \in {Value(s) : s \in Scalars \ {0}}
             \cup {Quantity(p) : p \in PlainQuantities}
             \cup {y \in {rhs, r} : y.q.val # 0} :
        Assign("mod_assign", x, op_mod_assign(r, x))

MulValue ==
    \E s \in Scalars : Evaluate("mul_value", Value(s), op_mul_value(r, s))

ValueMul ==
    \E s \in Scalars : Evaluate("value_mul", Value(s), op_value_mul(s, r))

DivValue ==
    \E s \in Scalars \ {0} : Evaluate("div_value", Value(s), op_div_value(r, s))

ValueDiv ==
    /\ r.q.val # 0
    /\ \E s \in Scalars : Evaluate("value_div", Value(s), op_value_div(s, r))

ModValue ==
    \E s \in Scalars \ {0} : Evaluate("mod_value", Value(s), op_mod_value(r, s))

Plus == Evaluate("plus", rhs, op_plus(r, rhs))

Minus == Evaluate("minus", rhs, op_minus(r, rhs))

Mod ==
    /\ rhs.q.val # 0
    /\ Evaluate("mod", rhs, op_mod(r, rhs))

MulQuantity ==
    \E p \in PlainQuantities :
        Evaluate("mul_quantity", Quantity(p), op_mul_quantity(r, p))

QuantityMul ==
    \E p \in PlainQuantities :
        Evaluate("quantity_mul", Quantity(p), op_quantity_mul(p, r))

DivQuantity ==
    \E p \in PlainQuantities :
        Evaluate("div_quantity", Quantity(p), op_div_quantity(r, p))

QuantityDiv ==
    /\ r.q.val # 0
    /\ \E p \in PlainQuantities :
           Evaluate("quantity_div", Quantity(p), op_quantity_div(p, r))

ModDimensionless ==
    \E p \in PlainQuantities :
        Evaluate("mod_dimensionless", Quantity(p), op_mod_dimensionless(r, p))

Equal == Evaluate("equal", rhs, op_equal(r, rhs))

Spaceship == Evaluate("spaceship", rhs, op_spaceship(r, rhs))

\* q + Kind::zero() == q
PlusZeroEqual ==
    Evaluate("plus_zero_equal", NoOperand,
             op_equal(op_plus(r, zero(type_of(r))), r))

\* q * Kind::one().common() == q
MulOneEqual ==
    Evaluate("mul_one_equal", NoOperand,
             op_equal(op_mul_quantity(r, common(one(type_of(r)))), r))

Next ==
    \/ Copy \/ EndOfExpression
    \/ CtorFromValue \/ CtorFromQuantity \/ CtorFromCommon \/ CtorFromQuantityKind
    \/ CtorFromQuantityKindBack
    \/ Zero \/ One
    \/ UnaryPlus \/ UnaryMinus
    \/ PreInc \/ PostInc \/ PreDec \/ PostDec
    \/ PlusAssign \/ MinusAssign \/ MulAssign \/ DivAssign \/ ModAssign
    \/ MulValue \/ ValueMul \/ DivValue \/ ValueDiv \/ ModValue
    \/ Plus \/ Minus \/ Mod
    \/ MulQuantity \/ QuantityMul \/ DivQuantity \/ QuantityDiv \/ ModDimensionless
    \/ Equal \/ Spaceship
    \/ PlusZeroEqual \/ MulOneEqual

Spec == Init /\ [][Next]_vars

\* ------------------------------------------------------------------ claims
DimChangingOps ==
    {"value_div", "mul_quantity", "quantity_mul", "div_quantity", "quantity_div"}

InPlaceOps ==
    {"pre_inc", "post_inc", "pre_dec", "post_dec",
     "plus_assign", "minus_assign", "mul_assign", "div_assign", "mod_assign"}

\* the result of the quantity layer for the last dimension-changing expression
QuantityLevel ==
    CASE last.op = "value_div"    -> ValueDivQ(last.x.v, common(last.pre))
      [] last.op = "mul_quantity" -> QMul(common(last.pre), last.x.q)
      [] last.op = "quantity_mul" -> QMul(last.x.q, common(last.pre))
      [] last.op = "div_quantity" -> QDiv(common(last.pre), last.x.q)
      [] last.op = "quantity_div" -> QDiv(last.x.q, common(last.pre))

\* the kind the hierarchy declares for the base kind of the operand and the
\* dimension of the quantity-level result
ResolvedKind == downcast_kind(base_kind(last.pre.kind), QuantityLevel.dim)

\* C1: q * s, s * q and q / s are kind-quantities of exactly the kind of q
\* holding q.common() * s, s * q.common() and q.common() / s.
C1_ScalarKeepsKind ==
    /\ last.op = "mul_value" =>
           res = quantity_kind(last.pre.kind, QMulValue(common(last.pre), last.x.v))
    /\ last.op = "value_mul" =>
           res = quantity_kind(last.pre.kind, QMulValue(common(last.pre), last.x.v))
    /\ last.op = "div_value" =>
           res = quantity_kind(last.pre.kind, QDivValue(common(last.pre), last.x.v))

C1_Witness ==
    /\ last.op = "div_value"
    /\ IsQuantityKind(res)
    /\ res.kind = "Width"
    /\ downcast_kind(base_kind(res.kind), res.q.dim) # res.kind
    /\ res.q.val # last.pre.q.val

\* C2: a dimension-changing operation on q of kind K with base kind B returns
\* the quantity-level result tagged with downcast_kind(B, its dimension); for
\* scalar / q that dimension is the inverse of K's.
C2_DowncastFromBase ==
    last.op \in DimChangingOps /\ ResolvedKind # NoKind =>
        /\ res = quantity_kind(ResolvedKind, QuantityLevel)
        /\ last.op = "value_div" => res.q.dim = 0 - dimension(last.pre.kind)

C2_Witness ==
    /\ last.op = "value_div"
    /\ last.pre.kind = "Radius"
    /\ IsQuantityKind(res)
    /\ res.kind = "Curvature"
    /\ res.q.dim = 0 - 1
    /\ res.q.val # 0

C4_KindQuantityRejected ==
    last.op = "mod_assign" /\ IsQuantityKind(last.x) => res = IllFormed

\* C4 amended: r %= x is accepted exactly when x is a bare number or a
\* kind-quantity of an equivalent kind whose quantity converts to that of r
\* (r's own type included); a plain quantity and a kind-quantity of another
\* kind are rejected.  An accepted call leaves the remainder in r.
C4_ModAssignOperands ==
    last.op = "mod_assign" =>
        LET x  == last.x
            ok == \/ IsValue(x)
                  \/ /\ IsQuantityKind(x)
                     /\ equivalent(x.kind, last.pre.kind)
                     /\ QConvertible(x.q, last.pre.q)
            d  == IF IsValue(x) THEN x.v ELSE InUnit(x.q, last.pre.q.exp)
        IN  /\ ok <=> res # IllFormed
            /\ ok => r = WithVal(last.pre, TruncMod(last.pre.q.val, d))
            /\ ~ok => r = last.pre

C4_Witness ==
    /\ last.op = "mod_assign"
    /\ IsQuantityKind(last.x)
    /\ last.x.kind # last.pre.kind
    /\ res # IllFormed
    /\ r # last.pre

\* C5: == and <=> of two kind-quantities exist exactly when the kinds are
\* equivalent, and then give what == and <=> give for the two common().
C5_Comparison ==
    /\ last.op = "equal" =>
           IF equivalent(last.pre.kind, last.x.kind)
           THEN res = Bool(QEq(common(last.pre), common(last.x)))
           ELSE res = IllFormed
    /\ last.op = "spaceship" =>
           IF equivalent(last.pre.kind, last.x.kind)
           THEN res = Ordering(QCmp(common(last.pre), common(last.x)))
           ELSE res = IllFormed

C5_Witness ==
    /\ last.op = "equal"
    /\ last.pre.kind # last.x.kind
    /\ res = Bool(TRUE)

\* C6: Kind(q.common()) == q, and its common() is q.common().
C6_RoundTrip ==
    last.op = "ctor_common" =>
        /\ op_equal(res, last.pre) = Bool(TRUE)
        /\ common(res) = common(last.pre)

C6_Witness ==
    /\ last.op = "ctor_common"
    /\ IsQuantityKind(res)
    /\ res.q.val # 0
    /\ res.q.exp # 0

\* C7 as stated: q + Kind::zero() == q and q * Kind::one().common() == q are
\* well-formed and true for every q.
C7_IdentityLaws ==
    last.op \in {"plus_zero_equal", "mul_one_equal"} => res = Bool(TRUE)

\* C7 amended: q + Kind::zero() == q for every q; q * Kind::one().common() == q
\* for a dimensionless kind in the unit one, while for a kind over another
\* dimension the product is of the squared dimension and the comparison with q
\* does not exist.
C7_IdentityLawsAmended ==
    /\ last.op = "plus_zero_equal" => res = Bool(TRUE)
    /\ last.op = "mul_one_equal" =>
           /\ dimension(last.pre.kind) = dim_one /\ last.pre.q.exp = 0
                  => res = Bool(TRUE)
           /\ dimension(last.pre.kind) # dim_one => res = IllFormed

C7_Witness ==
    /\ last.op = "mul_one_equal"
    /\ last.pre.q.val # 0
    /\ res = Bool(TRUE)

\* C8: a + b, a - b and a % b of equivalent kinds are kind-quantities of the
\* kind of a holding a.common() op b.common().
C8_LeftKind ==
    last.op \in {"plus", "minus", "mod"} /\ equivalent(last.pre.kind, last.x.kind) =>
        /\ last.op = "plus" =>
               res = quantity_kind(last.pre.kind, QAdd(common(last.pre), common(last.x)))
        /\ last.op = "minus" =>
               res = quantity_kind(last.pre.kind, QSub(common(last.pre), common(last.x)))
        /\ last.op = "mod" =>
               res = quantity_kind(last.pre.kind, QMod(common(last.pre), common(last.x)))

C8_Witness ==
    /\ last.op = "plus"
    /\ last.pre.kind = "Width"
    /\ last.x.kind = "Radius"
    /\ IsQuantityKind(res)
    /\ res.kind = "Width"
    /\ res.q.exp # last.pre.q.exp

\* the construction of the last expression: the object whose type is
\* constructed and the kind-quantity it is constructed from
CtorTarget == IF last.op = "ctor_quantity_kind" THEN last.pre ELSE rhs

CtorSource == IF last.op = "ctor_quantity_kind" THEN last.x ELSE last.pre

\* C9: a kind-quantity converts to the type of another, in either direction,
\* exactly when its kind is equivalent and its quantity converts; the
\* converted value has the kind and unit of the target and a common() equal to
\* the source's; a kind-quantity of a kind that is not equivalent constructs
\* nothing.
C9_EquivalentConstruction ==
    last.op \in {"ctor_quantity_kind", "ctor_quantity_kind_back"} =>
        LET ok == /\ equivalent(CtorSource.kind, CtorTarget.kind)
                  /\ QConvertible(common(CtorSource), common(CtorTarget))
        IN  /\ ok <=> res # IllFormed
            /\ ok => /\ type_of(res) = type_of(CtorTarget)
                     /\ QEq(common(res), common(CtorSource))
            /\ ~equivalent(CtorSource.kind, CtorTarget.kind) => res = IllFormed

C9_Witness ==
    /\ last.op = "ctor_quantity_kind_back"
    /\ IsQuantityKind(res)
    /\ last.pre.kind # res.kind
    /\ last.pre.q.exp # res.q.exp
    /\ res.q.val # 0
    /\ QEq(common(res), common(last.pre))

\* C10: a step of an in-place operator changes nothing but the number held by
\* r: the kind and unit of r, the right-hand object and the copy stay; every
\* other expression leaves r alone too; no step but the copy construction
\* itself touches the copy.
C10_Frame ==
    [][ /\ rhs' = rhs
        /\ last'.op # "copy" => cpy' = cpy
        /\ last'.op \in InPlaceOps =>
               /\ r'.tag = r.tag
               /\ type_of(r') = type_of(r)
               /\ r'.q.dim = r.q.dim
        /\ last'.op \notin InPlaceOps => r' = r ]_vars

C10_Witness ==
    /\ last.op = "plus_assign"
    /\ last.x = rhs
    /\ type_of(rhs) # type_of(r)
    /\ r # last.pre
    /\ cpy = last.pre

====
